---- MODULE Spec2Model ----
(***************************************************************************)
(* Model of the multi-pair ratio bot (src/backend/main.py; src/main.py is  *)
(* the same loop with a static configuration and no status file).          *)
(*                                                                         *)
(* One cycle of the `while True` loop is cut at the calls to the outside:  *)
(*   BeginCycle       config reload, needed symbols, load_tickers          *)
(*   LoadBalances     load_balances, portfolio valuation                   *)
(*   EvalPair         one iteration of `for pair in pairs` up to the sell  *)
(*   SubmitSell       client.order_market_sell                             *)
(*   RefreshBalances  load_balances after the sell                         *)
(*   BuyLeg           min(bal_stable, max_capital), order_market_buy       *)
(*   CommitRotation   pair_state[...] = target; state[name] = ...; save    *)
(*   Sleep            time.sleep                                           *)
(* The step that ends the last pair's iteration runs save_status.          *)
(* An exception no inner handler catches ends the cycle in the handler of  *)
(* the loop (`except Exception`), after which the loop sleeps.             *)
(*                                                                         *)
(* Python floats are modelled by exact rationals <<n, d>>, d > 0, in       *)
(* lowest terms: rounding is outside the model.                            *)
(***************************************************************************)
EXTENDS Integers, Sequences, FiniteSets, TLC

\* ---------------------------------------------------------------- bounds
\* Prices are drawn from -MaxPrice..MaxPrice.
MaxPrice == 3

\* ------------------------------------------------------------- arithmetic
Abs(x) == IF x < 0 THEN -x ELSE x

RECURSIVE Gcd(_, _)
Gcd(a, b) == IF b = 0 THEN a ELSE Gcd(b, a % b)

\* The rational n/d (d # 0) in lowest terms with a positive denominator.
Rat(n, d) ==
    LET s == IF d < 0 THEN -1 ELSE 1
        g == Gcd(Abs(n), Abs(d))
    IN  <<(s * n) \div g, (s * d) \div g>>

R(n) == <<n, 1>>

RAdd(a, b) == Rat(a[1] * b[2] + b[1] * a[2], a[2] * b[2])
RMul(a, b) == Rat(a[1] * b[1], a[2] * b[2])
\* a / b for b # 0 (Python raises ZeroDivisionError when b = 0).
RDiv(a, b) == Rat(a[1] * b[2], a[2] * b[1])
RLt(a, b) == a[1] * b[2] < b[1] * a[2]
RLe(a, b) == a[1] * b[2] <= b[1] * a[2]
\* Python's min(a, b): b when b < a, otherwise a.
RMin(a, b) == IF RLt(b, a) THEN b ELSE a

\* ------------------------------------------------------------ environment
STABLE == "USDT"
Coins == {"BTC", "X", "Z"}
Assets == Coins \cup {STABLE}
Prices == (-MaxPrice) .. MaxPrice
\* An asset is held, one unit of it free, or not held.
Balances == {0, 1}

to_symbol(coin, stable) == <<coin, stable>>
AllSymbols == {to_symbol(c, STABLE) : c \in Coins}

\* ---------------------------------------------------------- configuration
\* Contents config.json may have when the loop reloads it.
PairBTCX ==
    [name |-> "P1", coin_a |-> "BTC", coin_b |-> "X",
     upper_ratio |-> <<3, 2>>, lower_ratio |-> <<1, 1>>,
     allocation_pct |-> <<1, 2>>]
PairXBTC ==
    [name |-> "P2", coin_a |-> "X", coin_b |-> "BTC",
     upper_ratio |-> <<2, 1>>, lower_ratio |-> <<1, 1>>,
     allocation_pct |-> <<1, 1>>]
\* P1 after an edit of its coins in the UI.
PairZX ==
    [name |-> "P1", coin_a |-> "Z", coin_b |-> "X",
     upper_ratio |-> <<3, 2>>, lower_ratio |-> <<1, 1>>,
     allocation_pct |-> <<1, 1>>]

\* P1 after an edit that swaps its coins.
PairXBTC_P1 ==
    [name |-> "P1", coin_a |-> "X", coin_b |-> "BTC",
     upper_ratio |-> <<3, 2>>, lower_ratio |-> <<1, 1>>,
     allocation_pct |-> <<1, 2>>]

Configs ==
    { [dry_run |-> FALSE, pairs |-> <<PairBTCX, PairXBTC>>],
      [dry_run |-> TRUE,  pairs |-> <<PairBTCX, PairXBTC>>],
      [dry_run |-> FALSE, pairs |-> <<PairZX>>],
      [dry_run |-> FALSE, pairs |-> <<PairXBTC_P1>>] }

PairNames == {"P1", "P2"}

VARIABLES
    pc,                 \* position of the loop
    cfg,                \* cfg, DRY_RUN, pairs as loaded for this cycle
    tickers,            \* dict: symbol -> price, for the symbols fetched
    free_bal,           \* asset -> free balance (0 when absent)
    total_value_stable,
    idx,                \* index of the pair under evaluation
    state,              \* in-memory state: pair name -> current_asset
    stateFile,          \* contents of state.json
    statusOut,          \* status_out["pairs"] of this cycle
    statusSaves,        \* save_status calls of this cycle
    orders,             \* orders submitted to the venue in this cycle
    saves,              \* save_state calls of this cycle (pair names)
    decided,            \* what each pair evaluated in this cycle came to
    tickState,          \* state at the start of this cycle
    tickFile,           \* stateFile at the start of this cycle
    tickBal,            \* free_bal as fetched at the start of this cycle
    fetches,            \* for each load_balances made after a sell of this
                        \* cycle, the number of orders submitted before it
    lastRot             \* direction and coins of the last rotation of the
                        \* watched pair completed since the process started

vars == <<pc, cfg, tickers, free_bal, total_value_stable, idx, state,
          stateFile, statusOut, statusSaves, orders, saves, decided,
          tickState, tickFile, tickBal, fetches, lastRot>>

\* ------------------------------------------------------------------ state
default_state(c) ==
    [n \in {c.pairs[i].name : i \in 1 .. Len(c.pairs)} |->
        (CHOOSE p \in {c.pairs[i] : i \in 1 .. Len(c.pairs)} : p.name = n).coin_a]

\* state.json as an earlier run under configuration c left it.
StoredStates(c) ==
    {s \in [DOMAIN default_state(c) -> Coins] :
        \A i \in 1 .. Len(c.pairs) :
            s[c.pairs[i].name] \in {c.pairs[i].coin_a, c.pairs[i].coin_b}}

\* load_state: the default state when state.json does not exist, its
\* contents otherwise.
load_state(c) == {default_state(c)} \cup StoredStates(c)

\* state.get(name, {"current_asset": coin_a})["current_asset"]
CurrentAsset(st, pair) ==
    IF pair.name \in DOMAIN st THEN st[pair.name] ELSE pair.coin_a

\* A completed rotation: the branch that ran and the coins it ran for.
Rotation(pair, dir) ==
    [dir |-> dir, coin_a |-> pair.coin_a, coin_b |-> pair.coin_b]
NoRotation == [dir |-> "none", coin_a |-> "none", coin_b |-> "none"]
\* The pair whose completed rotations are recorded: every configuration
\* has it.
WatchedPair == "P1"

NoTickers == [s \in {} |-> 0]
NoBalances == [a \in Assets |-> 0]

Init ==
    /\ pc = "sleep"
    /\ cfg \in Configs
    /\ state \in load_state(cfg)
    /\ stateFile = state
    /\ tickers = NoTickers
    /\ free_bal = NoBalances
    /\ total_value_stable = R(0)
    /\ idx = 1
    /\ statusOut = <<>>
    /\ statusSaves = 0
    /\ orders = <<>>
    /\ saves = <<>>
    /\ decided = <<>>
    /\ tickState = state
    /\ tickFile = stateFile
    /\ tickBal = NoBalances
    /\ fetches = <<>>
    /\ lastRot = NoRotation

\* ------------------------------------------------------- start of a cycle
needed_symbols(c) ==
    {to_symbol("BTC", STABLE)} \cup
    UNION {{to_symbol(c.pairs[i].coin_a, STABLE),
            to_symbol(c.pairs[i].coin_b, STABLE)} : i \in 1 .. Len(c.pairs)}

\* load_tickers: a price for each needed symbol whose fetch succeeded; the
\* fetches that raise are skipped, so any subset of the symbols may be absent.
load_tickers(symbols) == UNION {[S -> Prices] : S \in SUBSET symbols}

\* load_balances: asset -> free amount.
load_balances == [Assets -> Balances]

\* AssetValue that looks the stable asset up in the tickers like any coin.
AssetValue_StableByTicker(asset, bal, tk) ==
    IF bal[asset] <= 0 THEN R(0)
    ELSE LET sym == to_symbol(asset, STABLE)
         IN  IF sym \in DOMAIN tk /\ tk[sym] # 0
             THEN R(bal[asset] * tk[sym]) ELSE R(0)

\* What one asset adds to total_value_stable.
AssetValue(asset, bal, tk) ==
    IF bal[asset] <= 0 THEN R(0)
    ELSE IF asset = STABLE THEN R(bal[asset])
    ELSE LET sym == to_symbol(asset, STABLE)
         IN  IF sym \in DOMAIN tk /\ tk[sym] # 0
             THEN R(bal[asset] * tk[sym]) ELSE R(0)

RECURSIVE SumValue(_, _, _)
SumValue(S, bal, tk) ==
    IF S = {} THEN R(0)
    ELSE LET a == CHOOSE x \in S : TRUE
         IN  RAdd(AssetValue(a, bal, tk), SumValue(S \ {a}, bal, tk))

portfolio_value(bal, tk) == SumValue(Assets, bal, tk)

BeginCycle ==
    /\ pc = "sleep"
    /\ \E c \in Configs :
        /\ cfg' = c
        /\ tickers' \in load_tickers(needed_symbols(c))
    /\ pc' = "balances"
    /\ idx' = 1
    /\ statusOut' = <<>>
    /\ statusSaves' = 0
    /\ orders' = <<>>
    /\ saves' = <<>>
    /\ decided' = <<>>
    /\ tickState' = state
    /\ tickFile' = stateFile
    /\ tickBal' = NoBalances
    /\ fetches' = <<>>
    /\ UNCHANGED <<free_bal, total_value_stable, state, stateFile>>
    /\ UNCHANGED lastRot

\* client.get_account() either answers or raises; a raise ends the cycle.
LoadBalances ==
    /\ pc = "balances"
    /\ \/ \E b \in load_balances :
            /\ free_bal' = b
            /\ tickBal' = b
            /\ total_value_stable' = portfolio_value(b, tickers)
            /\ pc' = "pairs"
       \/ /\ pc' = "done"
          /\ UNCHANGED <<free_bal, tickBal, total_value_stable>>
    /\ UNCHANGED <<cfg, tickers, idx, state, stateFile, statusOut,
                   statusSaves, orders, saves, decided, tickState, tickFile,
                   fetches>>
    /\ UNCHANGED lastRot

\* ------------------------------------------------------------ pair engine
price_a(pair) == tickers[to_symbol(pair.coin_a, STABLE)]
price_b(pair) == tickers[to_symbol(pair.coin_b, STABLE)]

\* The two `continue` guards on the prices.
PriceGuard(pair) ==
    \/ to_symbol(pair.coin_a, STABLE) \notin DOMAIN tickers
    \/ to_symbol(pair.coin_b, STABLE) \notin DOMAIN tickers
    \/ price_b(pair) = 0

ratio(pair) == Rat(price_a(pair), price_b(pair))

max_capital(pair) == RMul(total_value_stable, pair.allocation_pct)

value_pair(pair, bal) ==
    RAdd(R(bal[pair.coin_a] * price_a(pair)), R(bal[pair.coin_b] * price_b(pair)))

\* Direction with >= and <= for the two comparisons.
Direction_NonStrict(cur, pair, r) ==
    IF cur = pair.coin_a /\ RLe(pair.upper_ratio, r) THEN "AB"
    ELSE IF cur = pair.coin_b /\ RLe(r, pair.lower_ratio) THEN "BA"
    ELSE "HOLD"

\* The branch of the if / elif / else taken for a held asset and a ratio.
Direction(cur, pair, r) ==
    IF cur = pair.coin_a /\ RLt(pair.upper_ratio, r) THEN "AB"
    ELSE IF cur = pair.coin_b /\ RLt(r, pair.lower_ratio) THEN "BA"
    ELSE "HOLD"

PairDirection(pair) == Direction(CurrentAsset(state, pair), pair, ratio(pair))

SoldCoin(pair, dir) == IF dir = "AB" THEN pair.coin_a ELSE pair.coin_b
\* TargetCoin that is coin_b in both directions.
TargetCoin_AlwaysB(pair, dir) == pair.coin_b

TargetCoin(pair, dir) == IF dir = "AB" THEN pair.coin_b ELSE pair.coin_a

trade_value(vp, cap) == RMin(vp, cap)

\* min(bal, trade_value / price) of the coin sold.
amount_to_sell(bal, tv, price) == RMin(R(bal), RDiv(tv, R(price)))

SellAmount(pair, dir) ==
    amount_to_sell(free_bal[SoldCoin(pair, dir)],
                   trade_value(value_pair(pair, free_bal), max_capital(pair)),
                   tickers[to_symbol(SoldCoin(pair, dir), STABLE)])

StatusRecord(pair, dir) ==
    [name |-> pair.name,
     current_asset |-> CurrentAsset(state, pair),
     next_plan |-> dir]

\* Decide without the `if DRY_RUN` branch.
Decide_IgnoreDryRun(pair, dry) ==
    LET dir == PairDirection(pair)
    IN  IF dir = "HOLD" THEN "hold"
        ELSE IF RLe(value_pair(pair, free_bal), R(0)) THEN "continue"
        ELSE IF tickers[to_symbol(SoldCoin(pair, dir), STABLE)] = 0 THEN "abort"
        ELSE IF RLe(SellAmount(pair, dir), R(0)) THEN "continue"
        ELSE "sell"

\* What the execution block does with a pair that passed the price guards:
\* "hold", "continue" (nothing to trade), "dry" (DRY_RUN prints), "sell", or
\* "abort" when trade_value / price divides by zero.
Decide(pair, dry) ==
    LET dir == PairDirection(pair)
    IN  IF dir = "HOLD" THEN "hold"
        ELSE IF RLe(value_pair(pair, free_bal), R(0)) THEN "continue"
        ELSE IF tickers[to_symbol(SoldCoin(pair, dir), STABLE)] = 0 THEN "abort"
        ELSE IF RLe(SellAmount(pair, dir), R(0)) THEN "continue"
        ELSE IF dry THEN "dry"
        ELSE "sell"

\* The end of one iteration of `for pair in pairs`: the next pair, or, after
\* the last one, save_status(status_out) and the end of the cycle.
AfterPair == IF idx >= Len(cfg.pairs) THEN "done" ELSE "pairs"
StatusSavesAfterPair ==
    IF idx >= Len(cfg.pairs) THEN statusSaves + 1 ELSE statusSaves

Decision(pair, d) ==
    [name |-> pair.name, current_asset |-> CurrentAsset(state, pair), d |-> d]

EvalPair ==
    /\ pc = "pairs"
    /\ LET pair == cfg.pairs[idx]
       IN  IF PriceGuard(pair)
           THEN /\ idx' = idx + 1
                /\ pc' = AfterPair
                /\ statusSaves' = StatusSavesAfterPair
                /\ decided' = Append(decided, Decision(pair, "skip"))
                /\ UNCHANGED statusOut
           ELSE LET d == Decide(pair, cfg.dry_run)
                IN  /\ decided' = Append(decided, Decision(pair, d))
                    /\ statusOut' = Append(statusOut,
                                           StatusRecord(pair, PairDirection(pair)))
                    /\ pc' = CASE d = "sell" -> "sell"
                               [] d = "abort" -> "done"
                               [] OTHER -> AfterPair
                    /\ idx' = IF d \in {"sell", "abort"} THEN idx ELSE idx + 1
                    /\ statusSaves' = IF d \in {"sell", "abort"}
                                      THEN statusSaves ELSE StatusSavesAfterPair
    /\ UNCHANGED <<cfg, tickers, free_bal, total_value_stable, state,
                   stateFile, orders, saves, tickState, tickFile, tickBal,
                   fetches>>
    /\ UNCHANGED lastRot

\* Outcomes of a call to the venue: it answers, it raises
\* BinanceAPIException, or it raises another exception.
VenueResults == {"ok", "api_error", "exception"}

Order(pair, side, coin, qty, result) ==
    [name |-> pair.name, side |-> side, symbol |-> to_symbol(coin, STABLE),
     quantity |-> qty, result |-> result]

\* AfterSell without the `continue` of the sell's except clause.
AfterSell_NoContinue(result) ==
    CASE result = "ok" -> "refresh"
      [] result = "api_error" -> "refresh"
      [] OTHER -> "abort"

\* Where the loop goes after order_market_sell.
AfterSell(result) ==
    CASE result = "ok" -> "refresh"
      [] result = "api_error" -> "continue"
      [] OTHER -> "abort"

\* SubmitSell that submits the order again when the venue refuses it.
SubmitSell_Retry ==
    /\ pc = "sell"
    /\ LET pair == cfg.pairs[idx]
           dir == PairDirection(pair)
       IN  \E result \in VenueResults :
            /\ orders' = Append(orders,
                    Order(pair, "sell", SoldCoin(pair, dir),
                          SellAmount(pair, dir), result))
            /\ pc' = CASE result = "ok" -> "refresh"
                       [] result = "api_error" -> "sell"
                       [] OTHER -> "done"
    /\ UNCHANGED <<cfg, tickers, free_bal, total_value_stable, idx, state,
                   stateFile, statusOut, statusSaves, saves, decided,
                   tickState, tickFile, tickBal, fetches>>
    /\ UNCHANGED lastRot

SubmitSell ==
    /\ pc = "sell"
    /\ LET pair == cfg.pairs[idx]
           dir == PairDirection(pair)
       IN  \E result \in VenueResults :
            /\ orders' = Append(orders,
                    Order(pair, "sell", SoldCoin(pair, dir),
                          SellAmount(pair, dir), result))
            /\ pc' = CASE AfterSell(result) = "refresh" -> "refresh"
                       [] AfterSell(result) = "continue" -> AfterPair
                       [] OTHER -> "done"
            /\ idx' = IF AfterSell(result) = "continue" THEN idx + 1 ELSE idx
            /\ statusSaves' = IF AfterSell(result) = "continue"
                              THEN StatusSavesAfterPair ELSE statusSaves
    /\ UNCHANGED <<cfg, tickers, free_bal, total_value_stable, state,
                   stateFile, statusOut, saves, decided, tickState, tickFile,
                   tickBal, fetches>>
    /\ UNCHANGED lastRot

\* The account as a fetch made after a sell of `sold` finds it: the sell moved
\* the free amounts of the coin sold and of the stable asset, the other
\* assets are as the cycle's first fetch found them.
balances_after_sell(bal, sold) ==
    {b \in load_balances : \A a \in Assets \ {sold, STABLE} : b[a] = bal[a]}

\* RefreshBalances without the call: the buy leg reads the balances of the
\* cycle's first fetch.
RefreshBalances_NoFetch ==
    /\ pc = "refresh"
    /\ pc' = "buy"
    /\ UNCHANGED <<cfg, tickers, free_bal, total_value_stable, idx, state,
                   stateFile, statusOut, statusSaves, orders, saves, decided,
                   tickState, tickFile, tickBal, fetches>>
    /\ UNCHANGED lastRot

\* free_bal = load_balances(client) after the sell; a raise ends the cycle.
RefreshBalances ==
    /\ pc = "refresh"
    /\ \/ \E b \in balances_after_sell(free_bal,
                    SoldCoin(cfg.pairs[idx], PairDirection(cfg.pairs[idx]))) :
            /\ free_bal' = b
            /\ fetches' = Append(fetches, Len(orders))
            /\ pc' = "buy"
       \/ /\ pc' = "done"
          /\ UNCHANGED <<free_bal, fetches>>
    /\ UNCHANGED <<cfg, tickers, total_value_stable, idx, state, stateFile,
                   statusOut, statusSaves, orders, saves, decided, tickState,
                   tickFile, tickBal>>
    /\ UNCHANGED lastRot

\* stable_for_pair without the cap: all of the stable balance.
stable_for_pair_Uncapped(bal, cap) == R(bal[STABLE])

\* min(bal_stable, max_capital)
stable_for_pair(bal, cap) == RMin(R(bal[STABLE]), cap)

\* AfterBuy with the buy's except clause leaving the rotation.
AfterBuy_ErrorAborts(result) ==
    CASE result = "ok" -> "commit"
      [] OTHER -> "abort"

\* Where the loop goes after order_market_buy.
AfterBuy(result) ==
    CASE result = "ok" -> "commit"
      [] result = "api_error" -> "commit"
      [] OTHER -> "abort"

\* BuyLeg whose `else` (no stable asset to deploy) leaves the rotation
\* without the flip.
BuyLeg_SkipAbandons ==
    /\ pc = "buy"
    /\ LET pair == cfg.pairs[idx]
           dir == PairDirection(pair)
           target == TargetCoin(pair, dir)
           px == tickers[to_symbol(target, STABLE)]
           sfp == RMin(R(free_bal[STABLE]), max_capital(pair))
       IN  IF RLt(R(0), sfp)
           THEN IF px = 0
                THEN /\ pc' = "done"
                     /\ UNCHANGED orders
                ELSE \E result \in VenueResults :
                        /\ orders' = Append(orders,
                                Order(pair, "buy", target,
                                      RDiv(sfp, R(px)), result))
                        /\ pc' = IF AfterBuy(result) = "commit"
                                 THEN "commit" ELSE "done"
           ELSE /\ pc' = "done"
                /\ UNCHANGED orders
    /\ UNCHANGED <<cfg, tickers, free_bal, total_value_stable, idx, state,
                   stateFile, statusOut, statusSaves, saves, decided,
                   tickState, tickFile, tickBal, fetches>>
    /\ UNCHANGED lastRot

BuyLeg ==
    /\ pc = "buy"
    /\ LET pair == cfg.pairs[idx]
           dir == PairDirection(pair)
           target == TargetCoin(pair, dir)
           px == tickers[to_symbol(target, STABLE)]
           sfp == stable_for_pair(free_bal, max_capital(pair))
       IN  IF RLt(R(0), sfp)
           THEN IF px = 0
                THEN /\ pc' = "done"
                     /\ UNCHANGED orders
                ELSE \E result \in VenueResults :
                        /\ orders' = Append(orders,
                                Order(pair, "buy", target,
                                      RDiv(sfp, R(px)), result))
                        /\ pc' = IF AfterBuy(result) = "commit"
                                 THEN "commit" ELSE "done"
           ELSE /\ pc' = "commit"
                /\ UNCHANGED orders
    /\ UNCHANGED <<cfg, tickers, free_bal, total_value_stable, idx, state,
                   stateFile, statusOut, statusSaves, saves, decided,
                   tickState, tickFile, tickBal, fetches>>
    /\ UNCHANGED lastRot

\* SetCurrentAsset as `state = {name: pair_state}`.
SetCurrentAsset_DropsOthers(st, name, asset) == [n \in {name} |-> asset]

\* pair_state["current_asset"] = target; state[name] = pair_state
SetCurrentAsset(st, name, asset) ==
    [n \in DOMAIN st \cup {name} |-> IF n = name THEN asset ELSE st[n]]

\* save_state that leaves state.json as it is.
save_state_Deferred(st) == stateFile

\* save_state that writes only the entries that differ from state.json.
save_state_ChangedOnly(st) ==
    [n \in {m \in DOMAIN st : m \notin DOMAIN stateFile \/ st[m] # stateFile[m]}
        |-> st[n]]

\* json.dump(state) into state.json: the file holds the whole mapping.
save_state(st) == st

CommitRotation ==
    /\ pc = "commit"
    /\ LET pair == cfg.pairs[idx]
           dir == PairDirection(pair)
       IN  /\ state' = SetCurrentAsset(state, pair.name, TargetCoin(pair, dir))
           /\ stateFile' = save_state(state')
           /\ saves' = Append(saves, pair.name)
           /\ lastRot' = IF pair.name = WatchedPair
                         THEN Rotation(pair, dir) ELSE lastRot
    /\ pc' = AfterPair
    /\ idx' = idx + 1
    /\ statusSaves' = StatusSavesAfterPair
    /\ UNCHANGED <<cfg, tickers, free_bal, total_value_stable, statusOut,
                   orders, decided, tickState, tickFile, tickBal, fetches>>

\* Sleep for a loop without the `except Exception` handler: only a cycle that
\* ran to its save_status reaches the sleep, an exception ends the process.
Sleep_OnlyAfterStatus ==
    /\ pc = "done"
    /\ statusSaves = 1
    /\ pc' = "sleep"
    /\ tickers' = NoTickers
    /\ free_bal' = NoBalances
    /\ total_value_stable' = R(0)
    /\ idx' = 1
    /\ statusOut' = <<>>
    /\ statusSaves' = 0
    /\ orders' = <<>>
    /\ saves' = <<>>
    /\ decided' = <<>>
    /\ tickState' = state
    /\ tickFile' = stateFile
    /\ tickBal' = NoBalances
    /\ fetches' = <<>>
    /\ UNCHANGED <<cfg, state, stateFile>>
    /\ UNCHANGED lastRot

\* time.sleep(CHECK_INTERVAL_SEC).  Every local of the cycle is assigned
\* again by the next cycle before it is read, so the sleeping loop is
\* recorded with them cleared; state and state.json are what it keeps.
Sleep ==
    /\ pc = "done"
    /\ pc' = "sleep"
    /\ tickers' = NoTickers
    /\ free_bal' = NoBalances
    /\ total_value_stable' = R(0)
    /\ idx' = 1
    /\ statusOut' = <<>>
    /\ statusSaves' = 0
    /\ orders' = <<>>
    /\ saves' = <<>>
    /\ decided' = <<>>
    /\ tickState' = state
    /\ tickFile' = stateFile
    /\ tickBal' = NoBalances
    /\ fetches' = <<>>
    /\ UNCHANGED <<cfg, state, stateFile>>
    /\ UNCHANGED lastRot

Next ==
    \/ BeginCycle
    \/ LoadBalances
    \/ EvalPair
    \/ SubmitSell
    \/ RefreshBalances
    \/ BuyLeg
    \/ CommitRotation
    \/ Sleep

Spec == Init /\ [][Next]_vars

\* ----------------------------------------------------------- properties
Range(f) == {f[i] : i \in DOMAIN f}

\* The configured pair of this cycle with the given name.
PairOf(n) == CHOOSE p \in Range(cfg.pairs) : p.name = n

OrdersOf(n, side) ==
    {i \in 1 .. Len(orders) : orders[i].name = n /\ orders[i].side = side}

\* The entry of pair n, in memory and in state.json, is as the cycle found it.
Kept(n) ==
    /\ (n \in DOMAIN state) = (n \in DOMAIN tickState)
    /\ n \in DOMAIN state => state[n] = tickState[n]
    /\ (n \in DOMAIN stateFile) = (n \in DOMAIN tickFile)
    /\ n \in DOMAIN stateFile => stateFile[n] = tickFile[n]

\* The entry of pair n, in memory and in state.json, is the asset.
Holds(n, asset) ==
    /\ n \in DOMAIN state /\ state[n] = asset
    /\ n \in DOMAIN stateFile /\ stateFile[n] = asset

\* The loop is between the sell and the commit of pair n's rotation.
RotationOpen(n) ==
    /\ pc \in {"sell", "refresh", "buy", "commit"}
    /\ cfg.pairs[idx].name = n

\* The coin a sell order rotates into.
TargetOfSell(o) ==
    LET p == PairOf(o.name)
    IN  IF o.symbol = to_symbol(p.coin_a, STABLE) THEN p.coin_b ELSE p.coin_a

\* C1: a sell order that failed (the venue refused it, or the call raised)
\* is followed by no buy order for that pair in the cycle, by no save_state,
\* and the pair's current asset is unchanged in memory and in state.json.
C1_FailedSellAborts ==
    \A i \in 1 .. Len(orders) :
        (orders[i].side = "sell" /\ orders[i].result # "ok") =>
            /\ OrdersOf(orders[i].name, "buy") = {}
            /\ orders[i].name \notin Range(saves)
            /\ Kept(orders[i].name)

C1_Witness ==
    /\ pc = "done"
    /\ statusSaves = 1
    /\ ~cfg.dry_run
    /\ \E i \in 1 .. Len(orders) :
        orders[i].side = "sell" /\ orders[i].result = "api_error"

C3_SellAlwaysCommits ==
    \A i \in 1 .. Len(orders) :
        ( /\ orders[i].side = "sell"
          /\ orders[i].result = "ok"
          /\ ~RotationOpen(orders[i].name) ) =>
            Holds(orders[i].name, TargetOfSell(orders[i]))

\* The price of coin_b is known and positive.
PriceBUsable(pair) ==
    /\ to_symbol(pair.coin_b, STABLE) \in DOMAIN tickers
    /\ tickers[to_symbol(pair.coin_b, STABLE)] > 0

\* C4: a pair whose price of coin_b is absent, zero or negative gets no
\* order in the cycle and keeps its current asset.
C4_NoTradeWithoutPriceB ==
    \A k \in 1 .. Len(decided) :
        ~PriceBUsable(PairOf(decided[k].name)) =>
            /\ OrdersOf(decided[k].name, "sell") = {}
            /\ OrdersOf(decided[k].name, "buy") = {}
            /\ Kept(decided[k].name)

\* C5: in a cycle run with DRY_RUN set, no order is submitted, save_state is
\* not called, and the state, in memory and in state.json, is as the cycle
\* found it; ticks compose, so the state after any number of them is the
\* state before the first.
C5_DryRunChangesNothing ==
    cfg.dry_run =>
        /\ orders = <<>>
        /\ saves = <<>>
        /\ state = tickState
        /\ stateFile = tickFile

C5_Witness ==
    /\ cfg.dry_run
    /\ pc = "done"
    /\ \E k \in 1 .. Len(decided) : decided[k].d = "dry"

\* The sell of the pair decided last is still to be submitted.
SellPending(k) == pc = "sell" /\ k = Len(decided)

\* C6 as stated: a pair whose trigger fired with pairValue > 0 and a sell
\* quantity > 0 gets exactly one sell order and at most one buy order in the
\* cycle, and no pair gets an order twice.
C6_TriggerSellsOnce ==
    /\ \A k \in 1 .. Len(decided) :
        (decided[k].d \in {"sell", "dry"} /\ ~SellPending(k)) =>
            Cardinality(OrdersOf(decided[k].name, "sell")) = 1
    /\ \A n \in PairNames :
        /\ Cardinality(OrdersOf(n, "sell")) <= 1
        /\ Cardinality(OrdersOf(n, "buy")) <= 1

\* C6 amended: the same with DRY_RUN off.
C6_LiveTriggerSellsOnce ==
    /\ \A k \in 1 .. Len(decided) :
        (decided[k].d = "sell" /\ ~SellPending(k)) =>
            Cardinality(OrdersOf(decided[k].name, "sell")) = 1
    /\ \A n \in PairNames :
        /\ Cardinality(OrdersOf(n, "sell")) <= 1
        /\ Cardinality(OrdersOf(n, "buy")) <= 1

C6_Witness ==
    /\ pc = "done"
    /\ \E k \in 1 .. Len(decided) :
        /\ decided[k].d = "sell"
        /\ Cardinality(OrdersOf(decided[k].name, "sell")) = 1
        /\ Cardinality(OrdersOf(decided[k].name, "buy")) = 1

\* C7: a pair evaluated while holding coin_a with ratio <= upper_ratio, or
\* holding coin_b with ratio >= lower_ratio, holds: no order for it in the
\* cycle and its current asset unchanged.
C7_StrictTriggers ==
    \A k \in 1 .. Len(decided) :
        decided[k].d # "skip" =>
            LET p == PairOf(decided[k].name)
                cur == decided[k].current_asset
            IN  ( \/ cur = p.coin_a /\ RLe(ratio(p), p.upper_ratio)
                  \/ cur = p.coin_b /\ RLe(p.lower_ratio, ratio(p)) ) =>
                    /\ decided[k].d = "hold"
                    /\ OrdersOf(p.name, "sell") = {}
                    /\ OrdersOf(p.name, "buy") = {}
                    /\ Kept(p.name)

\* A pair holding a positive balance of coin_a was evaluated with the ratio
\* equal to upper_ratio.
C7_Witness ==
    /\ pc = "done"
    /\ ~cfg.dry_run
    /\ \E k \in 1 .. Len(decided) :
        LET p == PairOf(decided[k].name)
        IN  /\ decided[k].d = "hold"
            /\ decided[k].current_asset = p.coin_a
            /\ ratio(p) = p.upper_ratio
            /\ free_bal[p.coin_a] > 0

\* free_bal is still the snapshot the last sell order was sized on.
LastSellSized ==
    /\ Len(orders) > 0
    /\ orders[Len(orders)].side = "sell"
    /\ pc = "refresh" \/ orders[Len(orders)].result # "ok"

\* C8: a sell order's quantity is at most the balance of the coin sold,
\* trade_value is at most max_capital, and the quantity times the price of
\* the coin sold is at most max_capital.
C8_SellWithinBalanceAndCap ==
    LastSellSized =>
        LET o == orders[Len(orders)]
            p == PairOf(o.name)
        IN  /\ RLe(o.quantity, R(free_bal[o.symbol[1]]))
            /\ RLe(trade_value(value_pair(p, free_bal), max_capital(p)),
                   max_capital(p))
            /\ RLe(RMul(o.quantity, R(tickers[o.symbol])), max_capital(p))

\* C9: for every configured pair the current asset the engine reads is one of
\* the pair's two coins.
C9_CurrentAssetIsPairCoin ==
    \A i \in 1 .. Len(cfg.pairs) :
        CurrentAsset(state, cfg.pairs[i]) \in
            {cfg.pairs[i].coin_a, cfg.pairs[i].coin_b}

\* The entry of n in st differs from the one in st0, or is new.
Changed(st, st0, n) == n \notin DOMAIN st0 \/ st[n] # st0[n]

\* The new value of n's entry is the target of a sell of this cycle that
\* succeeded.
ByCommittedSell(n, asset) ==
    \E i \in OrdersOf(n, "sell") :
        orders[i].result = "ok" /\ asset = TargetOfSell(orders[i])

\* C10: within a cycle no entry of the state is removed, in memory or in
\* state.json; an entry that differs from the start of the cycle is the target
\* of a sell order of that pair that succeeded; a pair that was skipped, held,
\* aborted or simulated keeps its entry.
C10_ChangeOnlyByCommittedSell ==
    /\ DOMAIN tickState \subseteq DOMAIN state
    /\ DOMAIN tickFile \subseteq DOMAIN stateFile
    /\ \A n \in DOMAIN state :
        Changed(state, tickState, n) => ByCommittedSell(n, state[n])
    /\ \A n \in DOMAIN stateFile :
        Changed(stateFile, tickFile, n) => ByCommittedSell(n, stateFile[n])
    /\ \A k \in 1 .. Len(decided) :
        decided[k].d # "sell" => Kept(decided[k].name)

C10_Witness ==
    /\ pc \in {"pairs", "done"}
    /\ \E n \in DOMAIN tickFile :
        /\ stateFile[n] # tickFile[n]
        /\ state[n] = stateFile[n]
        /\ \E m \in DOMAIN tickFile : m # n /\ stateFile[m] = tickFile[m]

\* The cycle is past a sell of pair k that the venue answered or refused,
\* or past the calls that follow it.
TriggeredPairs == {k \in 1 .. Len(decided) : decided[k].d = "sell"}

\* C11: in a cycle in which a pair went into its rotation (the sell, the
\* balance re-fetch, the buy), whatever came of it, every pair configured
\* after it has been evaluated by the end of the cycle.
C11_FailureDoesNotBlockLaterPairs ==
    (pc = "done" /\ TriggeredPairs # {}) =>
        \A i \in 1 .. Len(cfg.pairs) :
            \E k \in 1 .. Len(decided) : decided[k].name = cfg.pairs[i].name

\* C12: whenever a pair is about to be evaluated, the balances it reads are
\* the ones fetched at the start of the cycle, and the portfolio valuation is
\* the one computed from them and the cycle's prices.
C12_PairsShareSnapshots ==
    pc = "pairs" =>
        /\ free_bal = tickBal
        /\ total_value_stable = portfolio_value(tickBal, tickers)

\* C13: save_status runs at most once in a cycle, and a cycle that came to
\* its pairs has run it exactly once when it ends, whatever its rotations
\* came to.
C13_OneStatusPerCycle ==
    /\ statusSaves <= 1
    /\ (pc = "done" /\ decided # <<>>) => statusSaves = 1

\* load_tickers returned no price at all.
PriceFetchFailed == pc # "sleep" /\ DOMAIN tickers = {}

\* The first load_balances of the cycle raised.
BalanceFetchFailed == pc = "done" /\ decided = <<>>

\* C14: a cycle whose price fetch returned nothing, or whose balance fetch
\* raised, submits no order and leaves the state, in memory and in
\* state.json, as it found it; the loop is not stopped: it goes on to its
\* sleep, and from the sleep to the next cycle.
C14_FailedFetchAbortsCycle ==
    /\ (PriceFetchFailed \/ BalanceFetchFailed) =>
        /\ orders = <<>>
        /\ saves = <<>>
        /\ state = tickState
        /\ stateFile = tickFile
        /\ pc = "done" => ENABLED Sleep
    /\ pc = "sleep" => ENABLED BeginCycle

C14_Witness ==
    /\ BalanceFetchFailed
    /\ \E i \in 1 .. Len(cfg.pairs) :
        /\ ~PriceGuard(cfg.pairs[i])
        /\ PairDirection(cfg.pairs[i]) # "HOLD"

\* The price of the coin is missing from the cycle's tickers, or zero.
PriceMissingOrZero(coin) ==
    \/ to_symbol(coin, STABLE) \notin DOMAIN tickers
    \/ tickers[to_symbol(coin, STABLE)] = 0

\* C15: a pair evaluated in a cycle in which the price of coin_a or of
\* coin_b is missing or zero gets no sell and no buy order in that cycle and
\* keeps its current asset, whichever coin it holds.
C15_NoTradeWithoutBothPrices ==
    \A k \in 1 .. Len(decided) :
        LET p == PairOf(decided[k].name)
        IN  (PriceMissingOrZero(p.coin_a) \/ PriceMissingOrZero(p.coin_b)) =>
                /\ OrdersOf(p.name, "sell") = {}
                /\ OrdersOf(p.name, "buy") = {}
                /\ Kept(p.name)

\* The loop is at the buy leg of a pair whose sell succeeded, and
\* min(bal_stable, max_capital), with bal_stable as re-fetched, is <= 0.
NothingToDeploy ==
    /\ pc = "buy"
    /\ orders[Len(orders)].side = "sell"
    /\ orders[Len(orders)].result = "ok"
    /\ RLe(RMin(R(free_bal[STABLE]),
                RMul(total_value_stable, cfg.pairs[idx].allocation_pct)),
           R(0))

\* The step out of NothingToDeploy submits no order and goes to the flip.
SkipsBuy == NothingToDeploy => (orders' = orders /\ pc' = "commit")

\* The step that follows a buy leg without an order sets the pair's current
\* asset to the target of the sell, in memory and in state.json.
FlipsAfterSkippedBuy ==
    (pc = "commit" /\ orders[Len(orders)].side = "sell") =>
        LET n == cfg.pairs[idx].name
            target == TargetOfSell(orders[Len(orders)])
        IN  /\ n \in DOMAIN state' /\ state'[n] = target
            /\ n \in DOMAIN stateFile' /\ stateFile'[n] = target
            /\ saves' = Append(saves, n)

\* C16: when the sell succeeded and min(re-fetched stable balance,
\* max_capital) <= 0, no buy order is submitted, and the next step sets the
\* pair's current asset to the target and saves it.
C16_SkippedBuyStillFlips == [][SkipsBuy /\ FlipsAfterSkippedBuy]_vars

\* A rotation was committed with a sell and no buy, the re-fetched stable
\* balance being 0 under a positive max_capital.
C16_Witness ==
    /\ pc \in {"pairs", "done"}
    /\ Len(orders) > 0
    /\ LET o == orders[Len(orders)]
       IN  /\ o.side = "sell" /\ o.result = "ok"
           /\ o.name \in Range(saves)
           /\ Holds(o.name, TargetOfSell(o))
           /\ free_bal[STABLE] = 0
           /\ RLt(R(0), max_capital(PairOf(o.name)))

\* Order i is a sell of pair n that succeeded, and a balance fetch was made
\* after it and before order j (before now, when j is Len(orders) + 1).
SoldAndRefetched(n, i, j) ==
    /\ orders[i].name = n
    /\ orders[i].side = "sell"
    /\ orders[i].result = "ok"
    /\ \E f \in 1 .. Len(fetches) : i <= fetches[f] /\ fetches[f] < j

\* C17: every buy order follows a sell order of its pair that succeeded in
\* the same cycle and a balance fetch made after that sell; save_state for a
\* pair has not run while the pair's rotation is at its sell, its re-fetch,
\* its buy leg or before its commit, and once it has run the pair's sell
\* succeeded and the balances were re-fetched after it.
C17_SellFetchBuyPersist ==
    /\ \A j \in 1 .. Len(orders) :
        orders[j].side = "buy" =>
            \E i \in 1 .. (j - 1) : SoldAndRefetched(orders[j].name, i, j)
    /\ \A n \in PairNames :
        /\ RotationOpen(n) => n \notin Range(saves)
        /\ n \in Range(saves) =>
            \E i \in 1 .. Len(orders) :
                SoldAndRefetched(n, i, Len(orders) + 1)

\* A rotation ran through all four steps: sell, re-fetch, buy, save.
C17_Witness ==
    /\ pc \in {"pairs", "done"}
    /\ Len(orders) >= 2
    /\ LET j == Len(orders)
       IN  /\ orders[j].side = "buy"
           /\ orders[j].result = "ok"
           /\ SoldAndRefetched(orders[j].name, j - 1, j)
           /\ orders[j].name \in Range(saves)

\* C18: whenever a pair is about to be evaluated, at the end of a cycle and
\* while the loop sleeps, state.json holds the in-memory state.
C18_FileEqualsMemory ==
    pc \in {"pairs", "done", "sleep"} => stateFile = state

\* The second pair is about to be evaluated after a rotation of the first.
C18_Witness ==
    /\ pc = "pairs"
    /\ idx = 2
    /\ cfg.pairs[1].name \in Range(saves)
    /\ state # tickState
    /\ stateFile = state

\* C19: a buy order's quantity times the cycle's price of the coin bought is
\* min(stable balance fetched after the sell, total_value_stable *
\* allocation_pct), the quantity is that amount divided by the price, and so
\* the value bought is at most total_value_stable * allocation_pct.
C19_BuyIsCappedStable ==
    (Len(orders) > 0 /\ orders[Len(orders)].side = "buy") =>
        LET o == orders[Len(orders)]
            cap == RMul(total_value_stable, PairOf(o.name).allocation_pct)
            deployed == RMin(R(free_bal[STABLE]), cap)
            price == R(tickers[o.symbol])
        IN  /\ fetches # <<>>
            /\ fetches[Len(fetches)] = Len(orders) - 1
            /\ o.quantity = RDiv(deployed, price)
            /\ RMul(o.quantity, price) = deployed
            /\ RLe(RMul(o.quantity, price), cap)

\* A buy was sized by the cap: the stable balance fetched after the sell is
\* more than total_value_stable * allocation_pct.
C19_Witness ==
    /\ pc = "commit"
    /\ orders[Len(orders)].side = "buy"
    /\ orders[Len(orders)].result = "ok"
    /\ RLt(max_capital(cfg.pairs[idx]), R(free_bal[STABLE]))

\* ------------------------------------------------------------- scheduling
Positions ==
    {"sleep", "balances", "pairs", "sell", "refresh", "buy", "commit", "done"}

\* A step that takes the loop to another position.
Moves == \E q \in Positions \ {pc} : pc' = q

\* The loop is one thread: every call it makes returns or raises, and
\* time.sleep returns, so the loop does not stay at one position for ever.
\* (A step of Next that keeps the position is the evaluation of a pair
\* followed by another pair, and the pairs are finitely many.)  Nothing is
\* assumed of what the venue and the account answer.
FairSpec == Spec /\ WF_pc(Moves)

\* Every cycle ends in the sleep and the sleep is followed by a cycle.
CyclesRecur == ([]<>(pc = "sleep")) /\ ([]<>(pc = "balances"))

\* P1 is about to be evaluated.
AtP1 == pc = "pairs" /\ cfg.pairs[idx].name = "P1"

\* The current asset of P1 is its coin_a, its coin_b.
P1HoldingA ==
    LET p == PairOf("P1") IN CurrentAsset(state, p) = p.coin_a
P1HoldingB ==
    LET p == PairOf("P1") IN CurrentAsset(state, p) = p.coin_b

\* DRY_RUN is off, the ratio is above upper_ratio and the sell quantity is
\* positive: the evaluation of P1 submits a sell of coin_a.
P1Triggers ==
    /\ ~cfg.dry_run
    /\ ~PriceGuard(cfg.pairs[idx])
    /\ Decide(cfg.pairs[idx], cfg.dry_run) = "sell"

\* A sell order of P1 succeeded in this cycle.
P1SellSucceeded ==
    \E i \in OrdersOf("P1", "sell") : orders[i].result = "ok"

\* Until P1 holds coin_b, every evaluation of P1 finds it holding coin_a
\* and triggers.
P1StaysTriggered == [](AtP1 /\ ~P1HoldingB => P1HoldingA /\ P1Triggers)

\* C20: every cycle ends and is followed by another; and if P1, on every
\* tick until it holds coin_b, holds coin_a and triggers with a positive sell
\* quantity with DRY_RUN off, and its sell orders succeed again and again,
\* then P1 eventually holds coin_b.
C20_RetriedUntilRotated ==
    /\ CyclesRecur
    /\ (P1StaysTriggered /\ []<>P1SellSucceeded) => <>P1HoldingB

\* The assets of the cycle's first fetch with a positive balance that are
\* the stable asset or have a price among the cycle's tickers.
Convertible ==
    {a \in Assets : tickBal[a] > 0 /\
        (a = STABLE \/ to_symbol(a, STABLE) \in DOMAIN tickers)}

\* The balance of the stable asset, the balance times the price of a coin.
ValueOf(a) ==
    IF a = STABLE THEN tickBal[a]
    ELSE tickBal[a] * tickers[to_symbol(a, STABLE)]

\* The sum of ValueOf over the convertible assets among the four.
ConvertibleSum ==
    (IF "USDT" \in Convertible THEN ValueOf("USDT") ELSE 0)
    + (IF "BTC" \in Convertible THEN ValueOf("BTC") ELSE 0)
    + (IF "X" \in Convertible THEN ValueOf("X") ELSE 0)
    + (IF "Z" \in Convertible THEN ValueOf("Z") ELSE 0)

\* C21: once the balances of a cycle are fetched, total_value_stable is the
\* sum, over the assets with a positive balance, of the balance of the stable
\* asset and of balance * price of the coins with a known price; it is 0
\* when no asset is convertible; and the valuation has changed nothing else:
\* before the first pair is evaluated there is no order, no save, and the
\* state, in memory and in state.json, is as the cycle found it.
C21_ValuationIsConvertibleSum ==
    pc \notin {"sleep", "balances"} /\ ~BalanceFetchFailed =>
        /\ total_value_stable = R(ConvertibleSum)
        /\ Convertible = {} => total_value_stable = R(0)
        /\ (pc = "pairs" /\ decided = <<>>) =>
            /\ orders = <<>> /\ saves = <<>> /\ statusSaves = 0
            /\ state = tickState /\ stateFile = tickFile

\* Valued: a stable balance, a coin with a price and a coin without one.
C21_Witness ==
    /\ pc = "pairs"
    /\ decided = <<>>
    /\ tickBal[STABLE] > 0
    /\ \E a \in Coins : tickBal[a] > 0 /\ a \in Convertible
                        /\ tickers[to_symbol(a, STABLE)] > 0
    /\ \E a \in Coins : tickBal[a] > 0 /\ a \notin Convertible
    /\ RLt(R(1), total_value_stable)

\* The action a pair's held asset and ratio call for.
ActionFor(p, held) ==
    IF held = p.coin_a /\ RLt(p.upper_ratio, ratio(p)) THEN "AB"
    ELSE IF held = p.coin_b /\ RLt(ratio(p), p.lower_ratio) THEN "BA"
    ELSE "HOLD"

\* The records of the snapshot that exist are the ones of the pairs that
\* passed the price guards, in the order of the configuration, each with the
\* held asset and the action computed for its pair in this cycle.
RecordsAreAsComputed ==
    LET passed == SelectSeq(decided, LAMBDA e : e.d # "skip")
    IN  /\ Len(statusOut) = Len(passed)
        /\ \A k \in 1 .. Len(passed) :
            /\ statusOut[k].name = passed[k].name
            /\ statusOut[k].current_asset = passed[k].current_asset
            /\ statusOut[k].next_plan =
                   ActionFor(PairOf(passed[k].name), passed[k].current_asset)

\* C22: the snapshot a cycle writes has exactly one record for each
\* configured pair, in the order of the configuration, and the record holds
\* the held asset and the action (hold, A->B iff holding coin_a and ratio >
\* upper_ratio, B->A iff holding coin_b and ratio < lower_ratio) computed for
\* the pair in this cycle.
C22_SnapshotHasEveryPair ==
    statusSaves = 1 =>
        /\ Len(statusOut) = Len(cfg.pairs)
        /\ \A i \in 1 .. Len(cfg.pairs) :
            \E k \in 1 .. Len(statusOut) : statusOut[k].name = cfg.pairs[i].name
        /\ RecordsAreAsComputed

\* The current asset a mapping holds for pair n, "absent" when it has none.
EntryOf(st, n) == IF n \in DOMAIN st THEN st[n] ELSE "absent"

\* The loop is in the iteration of the pair at idx.
InIteration == pc \in {"pairs", "sell", "refresh", "buy", "commit"}

\* A step keeps the entry of every pair but the one at idx, in memory and in
\* state.json.
OthersKept ==
    \A n \in PairNames \ {cfg.pairs[idx].name} :
        /\ EntryOf(state', n) = EntryOf(state, n)
        /\ EntryOf(stateFile', n) = EntryOf(stateFile, n)

\* C24: a step of the iteration of one pair (its evaluation, its sell, the
\* balance re-fetch, its buy, its flip with the save of the whole mapping)
\* leaves the current asset of every other pair as it was, in memory and in
\* state.json.
C24_OtherPairsUntouched == [][InIteration => OthersKept]_vars

\* P2 alone rotated in this cycle, and P1's entry is in the rewritten file
\* as the cycle found it.
C24_Witness ==
    /\ saves = <<"P2">>
    /\ "P2" \in DOMAIN tickState
    /\ EntryOf(state, "P2") # tickState["P2"]
    /\ stateFile = state
    /\ "P1" \in DOMAIN stateFile
    /\ Kept("P1")

\* C25: every order submitted to the venue, sell or buy, of either rotation
\* direction, has a quantity greater than 0.
C25_OrderQuantityPositive ==
    \A i \in 1 .. Len(orders) : RLt(R(0), orders[i].quantity)

\* Every pair of the cycle's configuration has upper_ratio > lower_ratio,
\* and no two of them share a name.
BandsAndNamesValid ==
    /\ \A i \in 1 .. Len(cfg.pairs) :
        RLt(cfg.pairs[i].lower_ratio, cfg.pairs[i].upper_ratio)
    /\ \A i, j \in 1 .. Len(cfg.pairs) :
        cfg.pairs[i].name = cfg.pairs[j].name => i = j

\* No pair's entry is flipped and saved twice in one cycle.
FlippedAtMostOnce == \A i, j \in 1 .. Len(saves) : saves[i] = saves[j] => i = j

\* The ratio of no pair of the cycle is above upper_ratio and below
\* lower_ratio.
TriggersExclusive ==
    pc # "sleep" =>
        \A i \in 1 .. Len(cfg.pairs) :
            LET p == cfg.pairs[i]
            IN  ~PriceGuard(p) =>
                    ~(RLt(p.upper_ratio, ratio(p)) /\ RLt(ratio(p), p.lower_ratio))

\* The step completes a rotation of the watched pair, which has completed
\* one before.
CompletesAnotherRotation ==
    /\ Len(saves') > Len(saves)
    /\ saves'[Len(saves')] = WatchedPair
    /\ lastRot.dir # "none"

\* The pair's coin_a and coin_b are those of its last completed rotation.
SameCoins == lastRot'.coin_a = lastRot.coin_a /\ lastRot'.coin_b = lastRot.coin_b

\* The rotation completed by the step runs in the direction opposite to the
\* one before it.
OppositeDirection ==
    /\ lastRot'.dir \in {"AB", "BA"}
    /\ lastRot'.dir # lastRot.dir

\* C23: with upper_ratio > lower_ratio and unique pair names, a pair's
\* current asset is flipped at most once in a cycle, no ratio satisfies both
\* triggers, and over the cycles the completed rotations of a pair alternate
\* in direction: A->B, then B->A, then A->B, and so on.
C23_RotationsAlternate ==
    /\ [](BandsAndNamesValid => FlippedAtMostOnce /\ TriggersExclusive)
    /\ [][BandsAndNamesValid /\ CompletesAnotherRotation => OppositeDirection]_vars

\* C23 as it holds: the same, the alternation for the completed rotations of
\* a pair whose coin_a and coin_b are the same at both rotations.
C23_RotationsAlternateSameCoins ==
    /\ [](BandsAndNamesValid => FlippedAtMostOnce /\ TriggersExclusive)
    /\ [][BandsAndNamesValid /\ CompletesAnotherRotation /\ SameCoins
            => OppositeDirection]_vars

\* P1 completed an A->B rotation in an earlier cycle; in this cycle, with
\* the same coins, its B->A rotation has sold and bought and is at its flip.
C23_Witness ==
    /\ pc = "commit"
    /\ cfg.pairs[idx].name = WatchedPair
    /\ lastRot = Rotation(cfg.pairs[idx], "AB")
    /\ PairDirection(cfg.pairs[idx]) = "BA"
    /\ saves = <<>>
    /\ BandsAndNamesValid

====
